---- MODULE Spec2Model ----
(***************************************************************************)
(* gostacode: conversion between HTTP status codes and gRPC codes.         *)
(*                                                                         *)
(* The repository holds two implementations of the same two functions:     *)
(*   src/gostacode.go      httpToGRPCMap,   grpcToHTTPMap                  *)
(*   src/unnamed/part_000  httpGRPCCodeMap, grpcHTTPCodeMap                *)
(* Each function reads one package-level Go map with the comma-ok form and *)
(* returns the entry, or a fixed fallback when the key is absent.          *)
(*                                                                         *)
(* The four maps are state: Go maps are mutable package-level variables.   *)
(* Callers are goroutines; each holds the frame of at most one call.       *)
(***************************************************************************)
EXTENDS Integers, FiniteSets

(***************************************************************************)
(* net/http status constants used by the two tables (values of net/http).  *)
(***************************************************************************)
StatusOK == 200
StatusCreated == 201
StatusBadRequest == 400
StatusUnauthorized == 401
StatusForbidden == 403
StatusNotFound == 404
StatusConflict == 409
StatusTooManyRequests == 429
StatusInternalServerError == 500
StatusNotImplemented == 501
StatusBadGateway == 502
StatusServiceUnavailable == 503
StatusGatewayTimeout == 504
\* used by the tests only: an HTTP status that has no entry
StatusHTTPVersionNotSupported == 505

(***************************************************************************)
(* google.golang.org/grpc/codes: type Code uint32 and its 17 named values. *)
(***************************************************************************)
OK == 0
Canceled == 1
Unknown == 2
InvalidArgument == 3
DeadlineExceeded == 4
NotFound == 5
AlreadyExists == 6
PermissionDenied == 7
ResourceExhausted == 8
FailedPrecondition == 9
Aborted == 10
OutOfRange == 11
Unimplemented == 12
Internal == 13
Unavailable == 14
DataLoss == 15
Unauthenticated == 16

\* The 17 recognized gRPC codes.
RecognizedCodes ==
  { OK, Canceled, Unknown, InvalidArgument, DeadlineExceeded, NotFound,
    AlreadyExists, PermissionDenied, ResourceExhausted, FailedPrecondition,
    Aborted, OutOfRange, Unimplemented, Internal, Unavailable, DataLoss,
    Unauthenticated }

\* The status codes net/http names (the IANA registry): the "standard" HTTP
\* status codes.
StandardHTTPStatusCodes ==
  { 100, 101, 102, 103,
    200, 201, 202, 203, 204, 205, 206, 207, 208, 226,
    300, 301, 302, 303, 304, 305, 307, 308,
    400, 401, 402, 403, 404, 405, 406, 407, 408, 409, 410, 411, 412, 413,
    414, 415, 416, 417, 418, 421, 422, 423, 424, 425, 426, 428, 429, 431,
    451,
    500, 501, 502, 503, 504, 505, 506, 507, 508, 510, 511 }

(***************************************************************************)
(* Bounds of the model.                                                    *)
(***************************************************************************)
\* goroutines calling into the package concurrently
NumCallers == 2
\* the sequential caller tries every int in -NegInputs .. MaxHTTPInput
NegInputs == 2
MaxHTTPInput == 1000
\* and every codes.Code (a uint32) in 0 .. MaxCodeInput
MaxCodeInput == 1000

Callers == 1 .. NumCallers
MainCaller == 1

HTTPInputs == (0 - NegInputs) .. MaxHTTPInput
CodeInputs == 0 .. MaxCodeInput

\* The inputs the benchmarks loop over (concurrent callers use these).
BenchHTTPInputs ==
  { StatusOK, StatusBadRequest, StatusNotFound, StatusInternalServerError, 999 }
BenchCodeInputs == { OK, InvalidArgument, NotFound, Internal, 999 }

(***************************************************************************)
(* The table literals: the entries as written, and the map they build.    *)
(***************************************************************************)
\* a Go map literal: pairs is a set of <<key, value>> with distinct keys
MapOf(pairs) ==
  [ k \in { p[1] : p \in pairs } |-> (CHOOSE p \in pairs : p[1] = k)[2] ]

httpToGRPCMapEntries ==
  { <<StatusOK, OK>>,
    <<StatusCreated, OK>>,
    <<StatusBadRequest, InvalidArgument>>,
    <<StatusUnauthorized, Unauthenticated>>,
    <<StatusForbidden, PermissionDenied>>,
    <<StatusNotFound, NotFound>>,
    <<StatusConflict, AlreadyExists>>,
    <<StatusTooManyRequests, ResourceExhausted>>,
    <<StatusInternalServerError, Internal>>,
    <<StatusNotImplemented, Unimplemented>>,
    <<StatusBadGateway, Unavailable>>,
    <<StatusServiceUnavailable, Unavailable>>,
    <<StatusGatewayTimeout, DeadlineExceeded>> }

\* mutant: 502 Bad Gateway tabled as codes.Internal
httpToGRPCMapLiteral_BadGatewayInternal ==
  MapOf((httpToGRPCMapEntries \ { <<StatusBadGateway, Unavailable>> })
          \cup { <<StatusBadGateway, Internal>> })

\* mutant: the value of the first entry is the HTTP constant, not the code
\* (an untyped constant: http.StatusOK: http.StatusOK compiles)
httpToGRPCMapLiteral_StatusAsCode ==
  MapOf((httpToGRPCMapEntries \ { <<StatusOK, OK>> })
          \cup { <<StatusOK, StatusOK>> })

\* mutant: 500 tabled as codes.Unknown, the inverse of Unknown -> 500
httpToGRPCMapLiteral_InternalUnknown ==
  MapOf((httpToGRPCMapEntries \ { <<StatusInternalServerError, Internal>> })
          \cup { <<StatusInternalServerError, Unknown>> })

\* mutant: one more entry, 499 (client closed request) -> codes.Canceled
httpToGRPCMapLiteral_WithCanceled ==
  MapOf(httpToGRPCMapEntries \cup { <<499, Canceled>> })

\* mutant: the 429 Too Many Requests entry is missing
httpToGRPCMapLiteral_NoTooManyRequests ==
  MapOf(httpToGRPCMapEntries \ { <<StatusTooManyRequests, ResourceExhausted>> })

httpToGRPCMapLiteral == MapOf(httpToGRPCMapEntries)

grpcToHTTPMapEntries ==
  { <<OK, StatusOK>>,
    <<Unknown, StatusInternalServerError>>,
    <<InvalidArgument, StatusBadRequest>>,
    <<DeadlineExceeded, StatusGatewayTimeout>>,
    <<NotFound, StatusNotFound>>,
    <<AlreadyExists, StatusConflict>>,
    <<PermissionDenied, StatusForbidden>>,
    <<Unauthenticated, StatusUnauthorized>>,
    <<ResourceExhausted, StatusTooManyRequests>>,
    <<FailedPrecondition, StatusBadRequest>>,
    <<Aborted, StatusConflict>>,
    <<OutOfRange, StatusBadRequest>>,
    <<Unimplemented, StatusNotImplemented>>,
    <<Internal, StatusInternalServerError>>,
    <<Unavailable, StatusServiceUnavailable>>,
    <<DataLoss, StatusInternalServerError>>,
    <<Canceled, StatusInternalServerError>> }

\* mutant: codes.Aborted tabled as 400 Bad Request, like its two neighbours
grpcToHTTPMapLiteral_AbortedBadRequest ==
  MapOf((grpcToHTTPMapEntries \ { <<Aborted, StatusConflict>> })
          \cup { <<Aborted, StatusBadRequest>> })

\* mutant: the codes.Canceled entry is missing, as it is in part_000
grpcToHTTPMapLiteral_NoCanceled ==
  MapOf(grpcToHTTPMapEntries \ { <<Canceled, StatusInternalServerError>> })

\* mutant: codes.Canceled tabled as 499 (client closed request)
grpcToHTTPMapLiteral_Canceled499 ==
  MapOf((grpcToHTTPMapEntries \ { <<Canceled, StatusInternalServerError>> })
          \cup { <<Canceled, 499>> })

grpcToHTTPMapLiteral == MapOf(grpcToHTTPMapEntries)

\* part_000: the same forward table
httpGRPCCodeMapEntries ==
  { <<StatusOK, OK>>,
    <<StatusCreated, OK>>,
    <<StatusBadRequest, InvalidArgument>>,
    <<StatusUnauthorized, Unauthenticated>>,
    <<StatusForbidden, PermissionDenied>>,
    <<StatusNotFound, NotFound>>,
    <<StatusConflict, AlreadyExists>>,
    <<StatusTooManyRequests, ResourceExhausted>>,
    <<StatusInternalServerError, Internal>>,
    <<StatusNotImplemented, Unimplemented>>,
    <<StatusBadGateway, Unavailable>>,
    <<StatusServiceUnavailable, Unavailable>>,
    <<StatusGatewayTimeout, DeadlineExceeded>> }

httpGRPCCodeMapLiteral == MapOf(httpGRPCCodeMapEntries)

\* part_000: the reverse table, 16 entries (no codes.Canceled)
grpcHTTPCodeMapEntries ==
  { <<OK, StatusOK>>,
    <<Unknown, StatusInternalServerError>>,
    <<InvalidArgument, StatusBadRequest>>,
    <<DeadlineExceeded, StatusGatewayTimeout>>,
    <<NotFound, StatusNotFound>>,
    <<AlreadyExists, StatusConflict>>,
    <<PermissionDenied, StatusForbidden>>,
    <<Unauthenticated, StatusUnauthorized>>,
    <<ResourceExhausted, StatusTooManyRequests>>,
    <<FailedPrecondition, StatusBadRequest>>,
    <<Aborted, StatusConflict>>,
    <<OutOfRange, StatusBadRequest>>,
    <<Unimplemented, StatusNotImplemented>>,
    <<Internal, StatusInternalServerError>>,
    <<Unavailable, StatusServiceUnavailable>>,
    <<DataLoss, StatusInternalServerError>> }

grpcHTTPCodeMapLiteral == MapOf(grpcHTTPCodeMapEntries)

(***************************************************************************)
(* State.                                                                  *)
(***************************************************************************)
VARIABLES
  httpToGRPCMap,    \* gostacode.go: map[int]codes.Code
  grpcToHTTPMap,    \* gostacode.go: map[codes.Code]int
  httpGRPCCodeMap,  \* part_000:     map[int]codes.Code
  grpcHTTPCodeMap,  \* part_000:     map[codes.Code]int
  pc,               \* per caller: "idle", "called" or "returned"
  fn,               \* per caller: the function of its call
  arg,              \* per caller: the argument of its call
  ok,               \* per caller: the comma-ok result of the call's lookup
  ret               \* per caller: the value the call returned

tables == <<httpToGRPCMap, grpcToHTTPMap, httpGRPCCodeMap, grpcHTTPCodeMap>>
frames == <<pc, fn, arg, ok, ret>>
vars == <<httpToGRPCMap, grpcToHTTPMap, httpGRPCCodeMap, grpcHTTPCodeMap,
          pc, fn, arg, ok, ret>>

\* the four functions a caller can call
ForwardFns == { "GRPCCodeFromHTTPStatusCode", "part_000.GRPCCodeFromHTTPStatusCode" }
ReverseFns == { "HTTPStatusCodeFromGRPCCode", "part_000.HTTPStatusCodeFromGRPCCode" }

(***************************************************************************)
(* The functions.                                                          *)
(***************************************************************************)
\* v, ok := m[k]: the entry and TRUE, or the zero value and FALSE
Lookup(m, k) ==
  IF k \in DOMAIN m THEN [val |-> m[k], ok |-> TRUE]
                    ELSE [val |-> 0, ok |-> FALSE]

\* mutant: return httpToGRPCMap[httpStatusCode], the zero value when absent
GRPCCodeFromHTTPStatusCode_ZeroValue(httpStatusCode) ==
  Lookup(httpToGRPCMap, httpStatusCode).val

GRPCCodeFromHTTPStatusCode(httpStatusCode) ==
  LET r == Lookup(httpToGRPCMap, httpStatusCode)
  IN  IF r.ok THEN r.val ELSE Unknown

\* mutant: return grpcToHTTPMap[grpcCode], the zero value when absent
HTTPStatusCodeFromGRPCCode_ZeroValue(grpcCode) ==
  Lookup(grpcToHTTPMap, grpcCode).val

HTTPStatusCodeFromGRPCCode(grpcCode) ==
  LET r == Lookup(grpcToHTTPMap, grpcCode)
  IN  IF r.ok THEN r.val ELSE StatusInternalServerError

Part000_GRPCCodeFromHTTPStatusCode(httpStatusCode) ==
  LET r == Lookup(httpGRPCCodeMap, httpStatusCode)
  IN  IF ~r.ok THEN Unknown ELSE r.val

Part000_HTTPStatusCodeFromGRPCCode(grpcCode) ==
  LET r == Lookup(grpcHTTPCodeMap, grpcCode)
  IN  IF ~r.ok THEN StatusInternalServerError ELSE r.val

(***************************************************************************)
(* Initial state: the package-level maps hold their literals, no call is   *)
(* in progress.                                                            *)
(***************************************************************************)
Init ==
  /\ httpToGRPCMap = httpToGRPCMapLiteral
  /\ grpcToHTTPMap = grpcToHTTPMapLiteral
  /\ httpGRPCCodeMap = httpGRPCCodeMapLiteral
  /\ grpcHTTPCodeMap = grpcHTTPCodeMapLiteral
  /\ pc = [c \in Callers |-> "idle"]
  /\ fn = [c \in Callers |-> "none"]
  /\ arg = [c \in Callers |-> 0]
  /\ ok = [c \in Callers |-> FALSE]
  /\ ret = [c \in Callers |-> 0]

(***************************************************************************)
(* Actions.                                                                *)
(***************************************************************************)
\* caller c calls function f with argument x
Invoke(c, f, x) ==
  /\ pc[c] = "idle"
  /\ pc' = [pc EXCEPT ![c] = "called"]
  /\ fn' = [fn EXCEPT ![c] = f]
  /\ arg' = [arg EXCEPT ![c] = x]
  /\ UNCHANGED <<ok, ret, tables>>

\* the frame of c after its call looked up r and returns v
Return(c, found, v) ==
  /\ pc' = [pc EXCEPT ![c] = "returned"]
  /\ ok' = [ok EXCEPT ![c] = found]
  /\ ret' = [ret EXCEPT ![c] = v]
  /\ UNCHANGED <<fn, arg>>

\* mutant: a lookup that misses stores the fallback under the key
RunGRPCCodeFromHTTPStatusCode_Insert(c) ==
  /\ pc[c] = "called"
  /\ fn[c] = "GRPCCodeFromHTTPStatusCode"
  /\ Return(c, Lookup(httpToGRPCMap, arg[c]).ok, GRPCCodeFromHTTPStatusCode(arg[c]))
  /\ httpToGRPCMap' =
       [ k \in DOMAIN httpToGRPCMap \cup { arg[c] } |->
           GRPCCodeFromHTTPStatusCode(k) ]
  /\ UNCHANGED <<grpcToHTTPMap, httpGRPCCodeMap, grpcHTTPCodeMap>>

\* mutant: a lookup that misses leaves a zero-valued entry under the key
RunGRPCCodeFromHTTPStatusCode_ZeroEntry(c) ==
  /\ pc[c] = "called"
  /\ fn[c] = "GRPCCodeFromHTTPStatusCode"
  /\ Return(c, Lookup(httpToGRPCMap, arg[c]).ok, GRPCCodeFromHTTPStatusCode(arg[c]))
  /\ httpToGRPCMap' =
       [ k \in DOMAIN httpToGRPCMap \cup { arg[c] } |->
           Lookup(httpToGRPCMap, k).val ]
  /\ UNCHANGED <<grpcToHTTPMap, httpGRPCCodeMap, grpcHTTPCodeMap>>

\* gostacode.go: the body of GRPCCodeFromHTTPStatusCode
RunGRPCCodeFromHTTPStatusCode(c) ==
  /\ pc[c] = "called"
  /\ fn[c] = "GRPCCodeFromHTTPStatusCode"
  /\ Return(c, Lookup(httpToGRPCMap, arg[c]).ok, GRPCCodeFromHTTPStatusCode(arg[c]))
  /\ UNCHANGED tables

\* gostacode.go: the body of HTTPStatusCodeFromGRPCCode
RunHTTPStatusCodeFromGRPCCode(c) ==
  /\ pc[c] = "called"
  /\ fn[c] = "HTTPStatusCodeFromGRPCCode"
  /\ Return(c, Lookup(grpcToHTTPMap, arg[c]).ok, HTTPStatusCodeFromGRPCCode(arg[c]))
  /\ UNCHANGED tables

\* part_000: the body of GRPCCodeFromHTTPStatusCode
RunPart000_GRPCCodeFromHTTPStatusCode(c) ==
  /\ pc[c] = "called"
  /\ fn[c] = "part_000.GRPCCodeFromHTTPStatusCode"
  /\ Return(c, Lookup(httpGRPCCodeMap, arg[c]).ok, Part000_GRPCCodeFromHTTPStatusCode(arg[c]))
  /\ UNCHANGED tables

\* part_000: the body of HTTPStatusCodeFromGRPCCode
RunPart000_HTTPStatusCodeFromGRPCCode(c) ==
  /\ pc[c] = "called"
  /\ fn[c] = "part_000.HTTPStatusCodeFromGRPCCode"
  /\ Return(c, Lookup(grpcHTTPCodeMap, arg[c]).ok, Part000_HTTPStatusCodeFromGRPCCode(arg[c]))
  /\ UNCHANGED tables

\* the caller has used the result (compared it, printed it) and goes on
Resume(c) ==
  /\ pc[c] = "returned"
  /\ pc' = [pc EXCEPT ![c] = "idle"]
  /\ fn' = [fn EXCEPT ![c] = "none"]
  /\ arg' = [arg EXCEPT ![c] = 0]
  /\ ok' = [ok EXCEPT ![c] = FALSE]
  /\ ret' = [ret EXCEPT ![c] = 0]
  /\ UNCHANGED tables

Run(c) ==
  \/ RunGRPCCodeFromHTTPStatusCode(c)
  \/ RunHTTPStatusCodeFromGRPCCode(c)
  \/ RunPart000_GRPCCodeFromHTTPStatusCode(c)
  \/ RunPart000_HTTPStatusCodeFromGRPCCode(c)

\* One caller, every input of the bounded ranges (the table-driven tests).
\* (the guard of Invoke is repeated in front of the quantifier so that the
\* inputs are enumerated only for a caller that can call)
InvokeForward ==
  /\ pc[MainCaller] = "idle"
  /\ \E f \in ForwardFns, x \in HTTPInputs : Invoke(MainCaller, f, x)

InvokeReverse ==
  /\ pc[MainCaller] = "idle"
  /\ \E f \in ReverseFns, x \in CodeInputs : Invoke(MainCaller, f, x)

Next ==
  \/ InvokeForward
  \/ InvokeReverse
  \/ Run(MainCaller)
  \/ Resume(MainCaller)

Spec == Init /\ [][Next]_vars

\* Concurrent callers, the benchmarks' inputs.
ConcInvokeForward ==
  \E c \in Callers, f \in ForwardFns, x \in BenchHTTPInputs : Invoke(c, f, x)
ConcInvokeReverse ==
  \E c \in Callers, f \in ReverseFns, x \in BenchCodeInputs : Invoke(c, f, x)

ConcNext ==
  \/ ConcInvokeForward
  \/ ConcInvokeReverse
  \/ \E c \in Callers : Run(c)
  \/ \E c \in Callers : Resume(c)

ConcSpec == Init /\ [][ConcNext]_vars

(***************************************************************************)
(* Claims.                                                                 *)
(***************************************************************************)
\* caller c holds the result of a call of one of the functions fs
Returned(c, fs) == pc[c] = "returned" /\ fn[c] \in fs

\* The documented HTTP -> gRPC table (README, "HTTP to gRPC Mapping").
TabledForward ==
  MapOf({ <<200, OK>>, <<201, OK>>, <<400, InvalidArgument>>,
          <<401, Unauthenticated>>, <<403, PermissionDenied>>,
          <<404, NotFound>>, <<409, AlreadyExists>>,
          <<429, ResourceExhausted>>, <<500, Internal>>,
          <<501, Unimplemented>>, <<502, Unavailable>>,
          <<503, Unavailable>>, <<504, DeadlineExceeded>> })

\* The documented gRPC -> HTTP table (README, "gRPC to HTTP Mapping").
TabledReverse ==
  MapOf({ <<OK, 200>>, <<Canceled, 500>>, <<Unknown, 500>>,
          <<InvalidArgument, 400>>, <<DeadlineExceeded, 504>>,
          <<NotFound, 404>>, <<AlreadyExists, 409>>,
          <<PermissionDenied, 403>>, <<Unauthenticated, 401>>,
          <<ResourceExhausted, 429>>, <<FailedPrecondition, 400>>,
          <<Aborted, 409>>, <<OutOfRange, 400>>, <<Unimplemented, 501>>,
          <<Internal, 500>>, <<Unavailable, 503>>, <<DataLoss, 500>> })

\* C1: whenever a call of GRPCCodeFromHTTPStatusCode has returned for one of
\* the 13 tabled HTTP statuses, the value returned is the tabled gRPC code.
C1_ForwardTabled ==
  \A c \in Callers :
    Returned(c, ForwardFns) /\ arg[c] \in DOMAIN TabledForward
      => ret[c] = TabledForward[arg[c]]

\* a call for 502 Bad Gateway has returned codes.Unavailable
C1_Witness ==
  \E c \in Callers :
    /\ Returned(c, {"GRPCCodeFromHTTPStatusCode"})
    /\ arg[c] = 502
    /\ ret[c] = Unavailable

\* C2: whenever a call of HTTPStatusCodeFromGRPCCode has returned for one of
\* the 17 recognized gRPC codes, the value returned is the tabled HTTP status.
C2_ReverseTabled ==
  \A c \in Callers :
    Returned(c, ReverseFns) /\ arg[c] \in DOMAIN TabledReverse
      => ret[c] = TabledReverse[arg[c]]

\* a call for codes.Aborted has returned 409
C2_Witness ==
  \E c \in Callers :
    /\ Returned(c, {"HTTPStatusCodeFromGRPCCode"})
    /\ arg[c] = Aborted
    /\ ret[c] = 409

\* C3: whenever a call of GRPCCodeFromHTTPStatusCode has returned for an
\* integer that is not one of the 13 tabled statuses, it returned Unknown.
C3_ForwardFallback ==
  \A c \in Callers :
    Returned(c, ForwardFns) /\ arg[c] \notin DOMAIN TabledForward
      => ret[c] = Unknown

\* a call for the negative status -1 has returned codes.Unknown
C3_Witness ==
  \E c \in Callers :
    /\ Returned(c, {"GRPCCodeFromHTTPStatusCode"})
    /\ arg[c] = -1
    /\ ret[c] = Unknown

\* C4: whenever a call of HTTPStatusCodeFromGRPCCode has returned for a value
\* that is not one of the 17 recognized codes, it returned 500.
C4_ReverseFallback ==
  \A c \in Callers :
    Returned(c, ReverseFns) /\ arg[c] \notin RecognizedCodes
      => ret[c] = 500

\* a call for codes.Code(999) has returned 500
C4_Witness ==
  \E c \in Callers :
    /\ Returned(c, {"HTTPStatusCodeFromGRPCCode"})
    /\ arg[c] = 999
    /\ ret[c] = 500

\* C5: no call fails: a call in progress can always run to its return, a
\* forward call returns one of the 17 recognized gRPC codes, and a reverse
\* call returns an HTTP status code.
C5_Total ==
  \A c \in Callers :
    /\ pc[c] = "called" => ENABLED Run(c)
    /\ Returned(c, ForwardFns) => ret[c] \in RecognizedCodes
    /\ Returned(c, ReverseFns) => ret[c] \in StandardHTTPStatusCodes

\* a reverse call for codes.Code(17), the first value past the enumeration,
\* has found no entry and has returned an HTTP status code
C5_Witness ==
  \E c \in Callers :
    /\ Returned(c, {"HTTPStatusCodeFromGRPCCode"})
    /\ arg[c] = 17
    /\ ~ok[c]
    /\ ret[c] \in StandardHTTPStatusCodes

\* C6: every call of a reverse function for one of the 17 recognized gRPC
\* codes finds an entry in that implementation's reverse table (its lookup
\* is ok), so it is never answered by the fallback branch.
C6_ReverseTableTotal ==
  \A c \in Callers :
    Returned(c, ReverseFns) /\ arg[c] \in RecognizedCodes => ok[c]

C8_BothDirectionsAmbiguous ==
  \A c \in Callers :
    /\ Returned(c, {"GRPCCodeFromHTTPStatusCode"}) /\ ~ok[c]
         => \E k \in DOMAIN httpToGRPCMap :
              GRPCCodeFromHTTPStatusCode(k) = ret[c]
    /\ Returned(c, {"HTTPStatusCodeFromGRPCCode"}) /\ ~ok[c]
         => \E k \in DOMAIN grpcToHTTPMap :
              HTTPStatusCodeFromGRPCCode(k) = ret[c]

\* C8 as amended: whenever a gRPC -> HTTP call was answered by the fallback,
\* some key of the reverse table is answered with the same value; whenever a
\* HTTP -> gRPC call was answered by the fallback, no key of the forward
\* table is answered with that value, and a forward call that returned
\* Unknown found no entry.
C8_ReverseOnlyAmbiguous ==
  \A c \in Callers :
    /\ Returned(c, {"HTTPStatusCodeFromGRPCCode"}) /\ ~ok[c]
         => \E k \in DOMAIN grpcToHTTPMap :
              HTTPStatusCodeFromGRPCCode(k) = ret[c]
    /\ Returned(c, {"GRPCCodeFromHTTPStatusCode"}) /\ ~ok[c]
         => \A k \in DOMAIN httpToGRPCMap :
              GRPCCodeFromHTTPStatusCode(k) # ret[c]
    /\ Returned(c, {"GRPCCodeFromHTTPStatusCode"}) /\ ret[c] = Unknown
         => ~ok[c]

\* a reverse call for codes.Code(999) was answered by the fallback with the
\* value the entry of codes.Internal holds
C8_Witness ==
  \E c \in Callers :
    /\ Returned(c, {"HTTPStatusCodeFromGRPCCode"})
    /\ arg[c] = 999
    /\ ~ok[c]
    /\ Internal \in DOMAIN grpcToHTTPMap
    /\ HTTPStatusCodeFromGRPCCode(Internal) = ret[c]

\* C9: codes.Canceled is a key of the reverse table, no entry of the forward
\* table maps to it, and no forward call that found an entry returned it.
C9_NotInverses ==
  /\ Canceled \in DOMAIN grpcToHTTPMap
  /\ \A k \in DOMAIN httpToGRPCMap : httpToGRPCMap[k] # Canceled
  /\ \A c \in Callers :
       Returned(c, {"GRPCCodeFromHTTPStatusCode"}) /\ ok[c]
         => ret[c] # Canceled

\* a reverse call for codes.Canceled has returned a status that the forward
\* function does not translate back to codes.Canceled
C9_Witness ==
  \E c \in Callers :
    /\ Returned(c, {"HTTPStatusCodeFromGRPCCode"})
    /\ arg[c] = Canceled
    /\ ok[c]
    /\ GRPCCodeFromHTTPStatusCode(ret[c]) # Canceled

\* C10: in every state reached by concurrent callers, the four tables hold
\* exactly the entries of their literals.
C10_TablesImmutable ==
  /\ httpToGRPCMap = httpToGRPCMapLiteral
  /\ grpcToHTTPMap = grpcToHTTPMapLiteral
  /\ httpGRPCCodeMap = httpGRPCCodeMapLiteral
  /\ grpcHTTPCodeMap = grpcHTTPCodeMapLiteral

\* one caller's lookup of the absent key 999 has returned while another
\* caller's call is in progress
C10_Witness ==
  \E c, d \in Callers :
    /\ c # d
    /\ Returned(c, {"GRPCCodeFromHTTPStatusCode"})
    /\ arg[c] = 999
    /\ ~ok[c]
    /\ pc[d] = "called"

\* C11: whenever two callers hold the results of calls of the same function
\* with the same argument, the two results are equal, whatever calls ran
\* between the two (a caller keeps its result while the others go on calling).
C11_Repeatable ==
  \A c, d \in Callers :
    /\ pc[c] = "returned"
    /\ pc[d] = "returned"
    /\ fn[c] = fn[d]
    /\ arg[c] = arg[d]
    => ret[c] = ret[d] /\ ok[c] = ok[d]

\* two callers hold the result of GRPCCodeFromHTTPStatusCode(999), a key
\* the table does not hold
C11_Witness ==
  \E c, d \in Callers :
    /\ c # d
    /\ Returned(c, {"GRPCCodeFromHTTPStatusCode"})
    /\ Returned(d, {"GRPCCodeFromHTTPStatusCode"})
    /\ arg[c] = 999
    /\ arg[d] = 999
    /\ ret[c] = ret[d]

\* C12: whenever HTTPStatusCodeFromGRPCCode has returned a status (for a
\* recognized code or not), that status is a key of the forward table,
\* GRPCCodeFromHTTPStatusCode does not translate it to Unknown, and
\* translating it forward and back again gives the same status.
C12_RoundTripStable ==
  \A c \in Callers :
    Returned(c, {"HTTPStatusCodeFromGRPCCode"})
      => /\ ret[c] \in DOMAIN httpToGRPCMap
         /\ GRPCCodeFromHTTPStatusCode(ret[c]) # Unknown
         /\ HTTPStatusCodeFromGRPCCode(GRPCCodeFromHTTPStatusCode(ret[c]))
              = ret[c]

\* codes.ResourceExhausted was translated to 429, which translates forward
\* to codes.ResourceExhausted again
C12_Witness ==
  \E c \in Callers :
    /\ Returned(c, {"HTTPStatusCodeFromGRPCCode"})
    /\ arg[c] = ResourceExhausted
    /\ ret[c] = 429
    /\ GRPCCodeFromHTTPStatusCode(ret[c]) = ResourceExhausted

\* C13: whenever a function of one implementation has returned, the function
\* of the same name of the other implementation gives the same result for
\* the same argument, and part_000's reverse table holds no codes.Canceled
\* entry while gostacode.go's does.
C13_Equivalent ==
  /\ Canceled \in DOMAIN grpcToHTTPMap
  /\ Canceled \notin DOMAIN grpcHTTPCodeMap
  /\ \A c \in Callers :
       /\ Returned(c, {"GRPCCodeFromHTTPStatusCode"})
            => ret[c] = Part000_GRPCCodeFromHTTPStatusCode(arg[c])
       /\ Returned(c, {"part_000.GRPCCodeFromHTTPStatusCode"})
            => ret[c] = GRPCCodeFromHTTPStatusCode(arg[c])
       /\ Returned(c, {"HTTPStatusCodeFromGRPCCode"})
            => ret[c] = Part000_HTTPStatusCodeFromGRPCCode(arg[c])
       /\ Returned(c, {"part_000.HTTPStatusCodeFromGRPCCode"})
            => ret[c] = HTTPStatusCodeFromGRPCCode(arg[c])

\* part_000's reverse function has answered codes.Canceled by its fallback,
\* with the status gostacode.go's entry holds
C13_Witness ==
  \E c \in Callers :
    /\ Returned(c, {"part_000.HTTPStatusCodeFromGRPCCode"})
    /\ arg[c] = Canceled
    /\ ~ok[c]
    /\ Lookup(grpcToHTTPMap, Canceled).ok
    /\ ret[c] = HTTPStatusCodeFromGRPCCode(Canceled)

====
